---- MODULE Spec2Model ----
(***************************************************************************)
(* A model of the APK analysis pipeline (apk-analyzer/analyzer.js) and of  *)
(* the threat store (threat-database/database.js).                         *)
(*                                                                         *)
(*  Spec      one analysis job: analyzeAPK, its timeout watcher and the    *)
(*            filesystem it touches.  One action is one event-loop task:   *)
(*            the code between two awaits on real I/O runs atomically (an  *)
(*            await of an async function that does no I/O resumes in a     *)
(*            microtask, before any timer can run).                        *)
(*  FairSpec  Spec with the fairness the event loop gives.                 *)
(*  ScoreSpec the synchronous scoring functions applied to bounded inputs. *)
(*  DbSpec    the threat store: initialization, lookup, add, remove and    *)
(*            the restart of the process.                                  *)
(***************************************************************************)
EXTENDS Integers, Sequences, FiniteSets, TLC

VARIABLES
    pc,             \* position of analyzeAPK (the await it is suspended at)
    rec,            \* this.analysisResults.get(analysisId)
    timer,          \* analysisTimeout: "unset", "armed", "fired", "cleared"
    hung,           \* the I/O the pipeline awaits never completes
    dirs,           \* the upload directory: extracted_<id>, the upload, siblings
    tree,           \* what extraction left in extracted_<id>: manifest, code files
    loc,            \* analyzeAPK's locals (extractedPath, the analyses, stepError)
    ret,            \* which return statement of analyzeAPK ran
    apk,            \* the uploaded package (the input)
    dbAvailable,    \* this.threatDatabase is an object
    threats,        \* ThreatDatabase.threats, a Map in insertion order
    disk,           \* threats.json, the array last written
    ops,            \* number of store operations performed (bounded)
    lastOp,         \* the last store operation and what it returned
    files,          \* threats.json and patterns.json: "absent", "valid", "corrupt"
    patternMap,     \* ThreatDatabase.patterns, the ids of the Map
    ready,          \* ThreatDatabase._ready
    scored,         \* ScoreSpec: the inputs and the verdict computed from them
    assessed,       \* PermSpec: the permission lists and their assessments
    analysisResults,\* APKAnalyzer.analysisResults, the job map, by job id
    inst,           \* the running calls of analyzeAPK: position, watcher, analysisId
    actor           \* the call whose task ran last, and whether it was its watcher

vars == <<pc, rec, timer, hung, dirs, tree, loc, ret, apk, dbAvailable,
          threats, disk, ops, lastOp, files, patternMap, ready, scored, assessed,
          analysisResults, inst, actor>>

jobVars == <<analysisResults, inst, actor>>
pipeVars == <<pc, rec, timer, hung, dirs, tree, loc, ret, apk, dbAvailable, jobVars>>
dbVars == <<threats, disk, ops, lastOp, files, patternMap, ready>>

-----------------------------------------------------------------------------
(* Bounds of the model.                                                    *)

MaxPerms == 3       \* longest permission list of a manifest
MaxPats == 2        \* longest list of matched code patterns
MaxOps == 2         \* store operations per behaviour

(* A field that a JavaScript object does not have (undefined). *)
Absent == -1
None == "none"

Max(a, b) == IF a >= b THEN a ELSE b
Min(a, b) == IF a <= b THEN a ELSE b

RECURSIVE SeqsUpTo(_, _)
SeqsUpTo(S, n) ==
    IF n = 0 THEN {<<>>}
    ELSE LET shorter == SeqsUpTo(S, n - 1)
         IN  shorter \cup {Append(s, x) : s \in {t \in shorter : Len(t) = n - 1}, x \in S}

Count(s, S) == Cardinality({i \in 1..Len(s) : s[i] \in S})

-----------------------------------------------------------------------------
(* Permission Risk Scorer: analyzePermissions, calculatePermissionRisk.    *)
(* Permission identifiers are written without "android.permission.".       *)

suspiciousPermissions ==
    {"READ_SMS", "SEND_SMS", "RECEIVE_SMS", "BIND_ACCESSIBILITY_SERVICE",
     "REQUEST_INSTALL_PACKAGES", "SYSTEM_ALERT_WINDOW", "WRITE_SETTINGS",
     "PACKAGE_USAGE_STATS", "RECEIVE_BOOT_COMPLETED", "READ_CONTACTS",
     "WRITE_CONTACTS", "READ_CALL_LOG", "WRITE_CALL_LOG", "CAMERA",
     "RECORD_AUDIO", "ACCESS_FINE_LOCATION", "ACCESS_COARSE_LOCATION",
     "READ_PHONE_NUMBERS", "READ_PHONE_STATE"}

bankingPermissions ==
    {"INTERNET", "ACCESS_NETWORK_STATE", "READ_EXTERNAL_STORAGE",
     "WRITE_EXTERNAL_STORAGE"}

highRiskPerms ==
    {"BIND_ACCESSIBILITY_SERVICE", "SYSTEM_ALERT_WINDOW", "TYPE_APPLICATION_OVERLAY"}

mediumRiskPerms ==
    {"RECEIVE_SMS", "READ_SMS", "SEND_SMS", "READ_CONTACTS", "WRITE_CONTACTS",
     "READ_CALL_LOG", "WRITE_CALL_LOG"}

lowRiskPerms ==
    {"CAMERA", "RECORD_AUDIO", "ACCESS_FINE_LOCATION", "ACCESS_COARSE_LOCATION",
     "READ_PHONE_STATE", "INTERNET", "ACCESS_NETWORK_STATE"}

PermIncrement(perm) ==
    IF perm \in highRiskPerms THEN 25
    ELSE IF perm \in mediumRiskPerms THEN 15
    ELSE IF perm \in lowRiskPerms THEN 8
    ELSE 10

RECURSIVE SumIncrements(_)
SumIncrements(s) ==
    IF s = <<>> THEN 0 ELSE PermIncrement(Head(s)) + SumIncrements(Tail(s))

(* A scorer that takes 5 off whenever one low-risk permission matched. *)
calculatePermissionRiskOneLow(permissions, suspicious) ==
    LET base == 10 + SumIncrements(suspicious)
        single == IF Count(suspicious, lowRiskPerms) = 1 THEN Max(base - 5, 0) ELSE base
        many == IF Len(suspicious) >= 5 THEN single + 15 ELSE single
    IN  Max(0, Min(many, 100))

(* calculatePermissionRisk, lines 459-519. *)
calculatePermissionRisk(permissions, suspicious) ==
    LET base == 10 + SumIncrements(suspicious)
        single == IF Len(suspicious) = 1 /\ suspicious[1] \in lowRiskPerms
                  THEN Max(base - 5, 0) ELSE base
        many == IF Len(suspicious) >= 5 THEN single + 15 ELSE single
    IN  Max(0, Min(many, 100))

analyzePermissions(permissions) ==
    LET foundSuspicious == SelectSeq(permissions, LAMBDA p : p \in suspiciousPermissions)
        foundBanking == SelectSeq(permissions, LAMBDA p : p \in bankingPermissions)
    IN  [total |-> Len(permissions),
         suspicious |-> foundSuspicious,
         banking |-> foundBanking,
         riskScore |-> calculatePermissionRisk(permissions, foundSuspicious)]

(* A placeholder that keeps the base score of calculatePermissionRisk. *)
DefaultPermissionAnalysisBase ==
    [total |-> 0, suspicious |-> <<>>, banking |-> <<>>, riskScore |-> 10]

(* The placeholder analyzeAPK substitutes when a stage raised. *)
DefaultPermissionAnalysis ==
    [total |-> 0, suspicious |-> <<>>, banking |-> <<>>, riskScore |-> 0]

-----------------------------------------------------------------------------
(* Code Pattern Scanner: calculateCodeRisk.  A pattern is classified by    *)
(* substring tests on its upper-cased text; the sets below are the         *)
(* patterns of scanForSuspiciousPatterns and of the seed pattern table     *)
(* that pass each test.                                                    *)

CodeHighPatterns ==
    {"TYPE_APPLICATION_OVERLAY", "SYSTEM_ALERT_WINDOW", "AccessibilityService",
     "keylogger", "screen_capture"}

CodeMediumPatterns ==
    {"MediaProjection", "VirtualDisplay", "DeviceAdminReceiver",
     "DevicePolicyManager", "SmsManager", "sms_intercept"}

(* generateFinalResult classifies again, with shorter substring lists. *)
FinalHighPatterns ==
    {"TYPE_APPLICATION_OVERLAY", "SYSTEM_ALERT_WINDOW", "AccessibilityService",
     "keylogger", "screen_capture"}

FinalMediumPatterns == {"SmsManager", "sms_intercept"}

calculateCodeRisk(suspiciousPatterns) ==
    LET high == Count(suspiciousPatterns, CodeHighPatterns)
        medium == Count(suspiciousPatterns, CodeMediumPatterns)
        low == Len(suspiciousPatterns) - high - medium
        s1 == IF high > 0 THEN Min(25 + high * 8, 60) ELSE 0
        s2 == IF medium >= 2 THEN s1 + Min(20 + medium * 5, 40) ELSE s1
        s3 == IF low >= 3 THEN s2 + Min(15 + low * 3, 30) ELSE s2
        s4 == IF Len(suspiciousPatterns) = 1 /\ low = 1 THEN Max(s3 - 5, 0) ELSE s3
        s5 == IF high = 0 /\ medium = 0 THEN Max(s4 - 10, 0) ELSE s4
    IN  Min(s5, 100)

analyzeCode(patterns) ==
    [suspiciousPatterns |-> patterns,
     riskScore |-> calculateCodeRisk(patterns),
     error |-> None]

DefaultCodeAnalysis(message) ==
    [suspiciousPatterns |-> <<>>, riskScore |-> 0, error |-> message]

-----------------------------------------------------------------------------
(* Threat Database: the Map `threats` is a sequence of [key, val] entries  *)
(* in insertion order (Map.set on an existing key keeps its position).     *)
(* A ThreatRecord is [id, hash, packageName]; a missing key is None.       *)

HasKey(map, k) == \E i \in 1..Len(map) : map[i].key = k

GetKey(map, k) == map[CHOOSE i \in 1..Len(map) : map[i].key = k].val

SetKey(map, k, v) ==
    IF HasKey(map, k)
    THEN [i \in 1..Len(map) |-> IF map[i].key = k THEN [key |-> k, val |-> v] ELSE map[i]]
    ELSE Append(map, [key |-> k, val |-> v])

(* lookupThreat(hash, packageName): the hash first, then the package name; *)
(* NoThreat is the null it returns.                                        *)
NoThreat == [id |-> None, hash |-> None, packageName |-> None]

(* A lookup that consults the hash only. *)
lookupThreatHashOnly(map, hash, packageName) ==
    IF HasKey(map, hash) THEN GetKey(map, hash) ELSE NoThreat

lookupThreat(map, hash, packageName) ==
    IF HasKey(map, hash) THEN GetKey(map, hash)
    ELSE IF packageName # None /\ HasKey(map, packageName) THEN GetKey(map, packageName)
    ELSE NoThreat

(* loadThreatDatabase: every record of the file is set under its hash     *)
(* (under the key undefined when it has none) and, when it has one, under  *)
(* its packageName.                                                        *)
UndefinedKey == "undefined"

RECURSIVE loadThreatDatabase(_, _)
loadThreatDatabase(map, file) ==
    IF file = <<>> THEN map
    ELSE LET t == Head(file)
             m1 == SetKey(map, IF t.hash = None THEN UndefinedKey ELSE t.hash, t)
             m2 == IF t.packageName # None THEN SetKey(m1, t.packageName, t) ELSE m1
         IN  loadThreatDatabase(m2, Tail(file))

(* The records createDefaultDatabase writes (hashes abbreviated). *)
defaultThreats ==
    << [id |-> "threat_001", hash |-> "e3b0c442", packageName |-> "com.fakebanking.app"],
       [id |-> "threat_002", hash |-> "a94a8fe5", packageName |-> "com.security.scanner.fake"],
       [id |-> "threat_003", hash |-> "da39a3ee", packageName |-> "com.system.optimizer.fake"] >>

(* checkThreatDatabase: by SHA-256 and package name, then by SHA-1 and     *)
(* package name when the file has a SHA-1.                                 *)
checkThreatDatabase(map, fileAnalysis, manifestAnalysis) ==
    LET first == lookupThreat(map, fileAnalysis.hash, manifestAnalysis.packageName)
        knownThreat ==
            IF first = NoThreat /\ fileAnalysis.hashSha1 # None
            THEN lookupThreat(map, fileAnalysis.hashSha1, manifestAnalysis.packageName)
            ELSE first
    IN  [isKnownThreat |-> knownThreat # NoThreat, threatId |-> knownThreat.id]

NoThreatAnalysis == [isKnownThreat |-> FALSE, threatId |-> None]

-----------------------------------------------------------------------------
(* Risk Aggregator: calculateTotalRisk, determineRiskLevel,                *)
(* generateFinalResult.                                                    *)

(* Math.round(0.55 * p + 0.45 * c): equal to the IEEE-754 result for all   *)
(* p, c in 0..100.                                                         *)
WeightedRound(permissionRisk, codeRisk) ==
    (55 * permissionRisk + 45 * codeRisk + 50) \div 100

(* calculateTotalRisk without the floor for a known threat (line 981). *)
calculateTotalRiskNoThreatFloor(permissionRisk, codeRisk, threatAnalysis) ==
    LET t0 == WeightedRound(permissionRisk, codeRisk)
        t1 == IF permissionRisk >= 60 \/ codeRisk >= 60 THEN Max(t0, 70) ELSE t0
        t3 == IF permissionRisk < 15 /\ codeRisk < 15 /\ ~threatAnalysis.isKnownThreat
              THEN Min(t1, 20) ELSE t1
    IN  Max(0, Min(t3, 100))

calculateTotalRisk(permissionRisk, codeRisk, threatAnalysis) ==
    LET t0 == WeightedRound(permissionRisk, codeRisk)
        t1 == IF permissionRisk >= 60 \/ codeRisk >= 60 THEN Max(t0, 70) ELSE t0
        t2 == IF threatAnalysis.isKnownThreat THEN Max(t1, 90) ELSE t1
        t3 == IF permissionRisk < 15 /\ codeRisk < 15 /\ ~threatAnalysis.isKnownThreat
              THEN Min(t2, 20) ELSE t2
    IN  Max(0, Min(t3, 100))

(* A threshold table whose bounds are inclusive. *)
determineRiskLevelInclusive(riskScore) ==
    IF riskScore <= 30 THEN "safe"
    ELSE IF riskScore <= 50 THEN "low_risk"
    ELSE IF riskScore <= 70 THEN "suspicious"
    ELSE IF riskScore <= 85 THEN "high_risk"
    ELSE "malicious"

(* determineRiskLevel, lines 992-999. *)
determineRiskLevel(riskScore) ==
    IF riskScore < 30 THEN "safe"
    ELSE IF riskScore < 50 THEN "low_risk"
    ELSE IF riskScore < 70 THEN "suspicious"
    ELSE IF riskScore < 85 THEN "high_risk"
    ELSE "malicious"

calculateConfidence(permissionAnalysis, codeAnalysis, threatAnalysis) ==
    IF threatAnalysis.isKnownThreat THEN 95
    ELSE IF permissionAnalysis.riskScore > 50 \/ codeAnalysis.riskScore > 50 THEN 85
    ELSE 70

(* The names the model draws from, and for each regular expression of      *)
(* generateFinalResult the names (lower-cased) it matches.                 *)
PackageNames ==
    {"Unknown", "com.example.app", "com.hack.tool", "com.game.mod",
     "com.mybank.app", "com.fakebanking.app"}

(* The names an upload can have (path.basename(apkPath)). *)
FileNames == {"app.apk", "trojan.apk", "mybank.apk"}

MalwareNames == {"com.hack.tool", "trojan.apk"}
                                               \* /hack|trojan|malware|virus|spyware/i
ModdedNames == {"com.game.mod"}                \* /mod|vanced|microg|happymod|gamedva/i
BankingNames == {"com.mybank.app", "com.fakebanking.app", "mybank.apk"}
                                               \* /bank|finance|payment|wallet|credit/i

(* String(fileAnalysis?.filename || '') (line 797): the result of          *)
(* analyzeFileStructure has no filename, so the empty string is tested.    *)
FilenameOf(fileAnalysis) ==
    IF "filename" \in DOMAIN fileAnalysis THEN fileAnalysis.filename ELSE ""

finalHighRiskPerms ==
    {"BIND_ACCESSIBILITY_SERVICE", "SYSTEM_ALERT_WINDOW", "TYPE_APPLICATION_OVERLAY"}
finalMediumRiskPerms ==
    {"RECEIVE_SMS", "READ_SMS", "SEND_SMS", "READ_CONTACTS", "WRITE_CONTACTS"}
finalLowRiskPerms ==
    {"CAMERA", "RECORD_AUDIO", "ACCESS_FINE_LOCATION", "ACCESS_COARSE_LOCATION"}

(* Lines 813-859: the floors from the counts of matched permissions. *)
PermissionFloors(score, suspicious) ==
    LET highRiskCount == Count(suspicious, finalHighRiskPerms)
        mediumRiskCount == Count(suspicious, finalMediumRiskPerms)
        lowRiskCount == Count(suspicious, finalLowRiskPerms)
        a == IF highRiskCount > 0 THEN Max(score, Min(30 + highRiskCount * 10, 60)) ELSE score
        b == IF mediumRiskCount >= 2 THEN Max(a, Min(25 + mediumRiskCount * 5, 45)) ELSE a
        c == IF lowRiskCount >= 3 THEN Max(b, Min(20 + lowRiskCount * 3, 35)) ELSE b
    IN  IF Len(suspicious) > 0 THEN c ELSE score

(* Lines 861-892: the floors from the counts of matched code patterns. *)
PatternFloors(score, patterns) ==
    LET high == Count(patterns, FinalHighPatterns)
        medium == Count(patterns, FinalMediumPatterns)
        a == IF high > 0 THEN Max(score, Min(35 + high * 8, 60)) ELSE score
        b == IF medium >= 2 THEN Max(a, Min(25 + medium * 5, 45)) ELSE a
    IN  IF Len(patterns) > 0 THEN b ELSE score

(* Lines 894-901: the reduction for banking-domain names. *)
BankingReduction(score, filename, packageName) ==
    IF (packageName \in BankingNames \/ filename \in BankingNames) /\ score < 60
    THEN Max(score - 15, 0) ELSE score

(* generateFinalResult without the two caps of lines 915-935. *)
NoSignalCapsOff(score, permissionAnalysis, codeAnalysis, threatAnalysis) == score

(* Lines 915-935: the two caps for packages without signals. *)
NoSignalCaps(score, permissionAnalysis, codeAnalysis, threatAnalysis) ==
    LET noPermSignals == Len(permissionAnalysis.suspicious) = 0
        noCodeSignals == Len(codeAnalysis.suspiciousPatterns) = 0
        noThreat == ~threatAnalysis.isKnownThreat
        a == IF noPermSignals /\ noCodeSignals /\ noThreat THEN Min(score, 20) ELSE score
        lowBoth == permissionAnalysis.riskScore < 25 /\ codeAnalysis.riskScore < 25
    IN  IF lowBoth /\ noThreat THEN Min(a, 20) ELSE a

Adjust(adjustments, applies, factor, value) ==
    IF applies THEN Append(adjustments, [factor |-> factor, value |-> value])
    ELSE adjustments

(* The entries lines 844-858 push for the permission floors. *)
PermissionAdjustments(adjustments, suspicious) ==
    LET highRiskCount == Count(suspicious, finalHighRiskPerms)
        mediumRiskCount == Count(suspicious, finalMediumRiskPerms)
        lowRiskCount == Count(suspicious, finalLowRiskPerms)
        a == Adjust(adjustments, highRiskCount > 0, "High-risk permissions",
                    Min(30 + highRiskCount * 10, 60))
        b == Adjust(a, mediumRiskCount >= 2, "Multiple medium-risk permissions",
                    Min(25 + mediumRiskCount * 5, 45))
        c == Adjust(b, lowRiskCount >= 3, "Multiple low-risk permissions",
                    Min(20 + lowRiskCount * 3, 35))
    IN  IF Len(suspicious) > 0 THEN c ELSE adjustments

(* The entries lines 881-891 push for the code pattern floors. *)
PatternAdjustments(adjustments, patterns) ==
    LET high == Count(patterns, FinalHighPatterns)
        medium == Count(patterns, FinalMediumPatterns)
        a == Adjust(adjustments, high > 0, "High-risk code patterns", Min(35 + high * 8, 60))
        b == Adjust(a, medium >= 2, "Multiple medium-risk patterns", Min(25 + medium * 5, 45))
    IN  IF Len(patterns) > 0 THEN b ELSE adjustments

(* The entries lines 922-934 push for the two caps. *)
CapAdjustments(adjustments, permissionAnalysis, codeAnalysis, threatAnalysis) ==
    LET noThreat == ~threatAnalysis.isKnownThreat
        a == Adjust(adjustments,
                    /\ Len(permissionAnalysis.suspicious) = 0
                    /\ Len(codeAnalysis.suspiciousPatterns) = 0
                    /\ noThreat,
                    "No suspicious signals detected", 20)
    IN  Adjust(a, permissionAnalysis.riskScore < 25 /\ codeAnalysis.riskScore < 25 /\ noThreat,
               "Low signals guard", 20)

(* riskBreakdown (lines 787-939), and with it the running score after     *)
(* the test of line 801 and on both sides of the test of line 895.         *)
(* manifestAnalysis.signatures is never set by                             *)
(* analyzeManifest, so the signature reduction (lines 903-909) never       *)
(* applies.                                                                *)
RiskBreakdown(fileAnalysis, manifestAnalysis, permissionAnalysis, codeAnalysis, threatAnalysis) ==
    LET filename == FilenameOf(fileAnalysis)
        packageName == manifestAnalysis.packageName
        malware == filename \in MalwareNames \/ packageName \in MalwareNames
        modded == filename \in ModdedNames \/ packageName \in ModdedNames
        banking == packageName \in BankingNames \/ filename \in BankingNames
        t0 == calculateTotalRisk(permissionAnalysis.riskScore, codeAnalysis.riskScore,
                                 threatAnalysis)
        t1 == IF malware THEN Max(t0, 80) ELSE t0
        t2 == IF modded THEN Max(t1, 55) ELSE t1
        t3 == PermissionFloors(t2, permissionAnalysis.suspicious)
        t4 == PatternFloors(t3, codeAnalysis.suspiciousPatterns)
        t5 == BankingReduction(t4, filename, packageName)
        t6 == NoSignalCaps(t5, permissionAnalysis, codeAnalysis, threatAnalysis)
        a1 == Adjust(<<>>, malware, "Malicious filename/package", 80)
        a2 == Adjust(a1, modded, "Modded app indicators", 55)
        a3 == PermissionAdjustments(a2, permissionAnalysis.suspicious)
        a4 == PatternAdjustments(a3, codeAnalysis.suspiciousPatterns)
        a5 == Adjust(a4, banking /\ t4 < 60, "Legitimate banking app indicators", 15)
        a6 == CapAdjustments(a5, permissionAnalysis, codeAnalysis, threatAnalysis)
    IN  [baseScore |-> t0,
         afterMalwareTest |-> t1,
         beforeBankingTest |-> t4,
         afterBankingTest |-> t5,
         adjustments |-> a6,
         finalScore |-> Max(0, Min(t6, 100))]

(* The score generateFinalResult ends with. *)
FinalRiskScore(fileAnalysis, manifestAnalysis, permissionAnalysis, codeAnalysis, threatAnalysis) ==
    RiskBreakdown(fileAnalysis, manifestAnalysis, permissionAnalysis, codeAnalysis,
                  threatAnalysis).finalScore

(* generateRecommendations, lines 1013-1034: one set of three or two       *)
(* sentences by risk level, then the review of the suspicious permissions  *)
(* (their names are joined into the sentence) when there are any.          *)
SafeRecommendations ==
    << "This APK appears to be safe for installation",
       "Always download from official sources when possible" >>

CautionRecommendations ==
    << "Exercise caution - this APK has some suspicious characteristics",
       "Review the detailed analysis before making a decision",
       "Consider downloading from official sources instead" >>

DoNotInstallRecommendations ==
    << "DO NOT INSTALL this APK - high risk of malware",
       "Delete the file immediately",
       "Report to your bank if this claims to be a banking app" >>

generateRecommendations(riskLevel, permissionAnalysis, codeAnalysis) ==
    (IF riskLevel = "safe" THEN SafeRecommendations
     ELSE IF riskLevel = "suspicious" THEN CautionRecommendations
     ELSE DoNotInstallRecommendations)
    \o (IF Len(permissionAnalysis.suspicious) > 0
        THEN <<"Review suspicious permissions">> ELSE <<>>)

(* The record generateFinalResult stores and returns: a new object with    *)
(* status 'completed' and neither progress nor steps.                      *)
generateFinalResult(fileAnalysis, manifestAnalysis, permissionAnalysis, codeAnalysis, threatAnalysis) ==
    LET totalRiskScore == FinalRiskScore(fileAnalysis, manifestAnalysis,
                                         permissionAnalysis, codeAnalysis, threatAnalysis)
        riskLevel == determineRiskLevel(totalRiskScore)
    IN  [status |-> "completed",
         progress |-> Absent,
         steps |-> <<>>,
         hasSteps |-> FALSE,
         error |-> None,
         riskLevel |-> riskLevel,
         riskScore |-> totalRiskScore,
         isSafe |-> (riskLevel = "safe"),
         confidence |-> calculateConfidence(permissionAnalysis, codeAnalysis, threatAnalysis),
         riskBreakdown |-> RiskBreakdown(fileAnalysis, manifestAnalysis, permissionAnalysis,
                                         codeAnalysis, threatAnalysis),
         recommendations |-> generateRecommendations(riskLevel, permissionAnalysis,
                                                     codeAnalysis),
         packageName |-> manifestAnalysis.packageName,
         nSuspicious |-> Len(permissionAnalysis.suspicious),
         nPatterns |-> Len(codeAnalysis.suspiciousPatterns),
         codeError |-> codeAnalysis.error,
         isKnownThreat |-> threatAnalysis.isKnownThreat]

-----------------------------------------------------------------------------
(* Job Tracker: the record of one job in analysisResults.                  *)

Terminal == {"completed", "failed"}

TimeoutMessage == "Analysis timeout - process took too long"

BlankRecord ==
    [status |-> "absent", progress |-> Absent, steps |-> <<>>, hasSteps |-> FALSE,
     error |-> None, riskLevel |-> None, riskScore |-> Absent, isSafe |-> FALSE,
     riskBreakdown |-> None, recommendations |-> <<>>,
     confidence |-> Absent, packageName |-> None, nSuspicious |-> Absent,
     nPatterns |-> Absent, codeError |-> None, isKnownThreat |-> FALSE]

(* No entry under the job id. *)
NoRecord == BlankRecord

(* The record analyzeAPK creates (lines 48-57); the POST /api/analyze      *)
(* handler seeds the same shape before it calls analyzeAPK.                *)
ProcessingRecord ==
    [BlankRecord EXCEPT !.status = "processing", !.progress = 0, !.hasSteps = TRUE]

(* A seeded record without a steps array. *)
SeedRecordNoSteps == [ProcessingRecord EXCEPT !.hasSteps = FALSE]

SeedRecord == ProcessingRecord

(* updateProgress: nothing without a record; otherwise progress is         *)
(* assigned, then a step is pushed.  On a record without a steps array     *)
(* (the one generateFinalResult stored) the push throws after the          *)
(* assignment.  steps is modelled by the progress values pushed.           *)
updateProgressThrows(r) == r.status # "absent" /\ ~r.hasSteps

updateProgress(r, progress) ==
    IF r.status = "absent" THEN r
    ELSE IF r.hasSteps
         THEN [r EXCEPT !.progress = progress, !.steps = Append(@, progress)]
         ELSE [r EXCEPT !.progress = progress]

(* r.status = 'failed'; r.error = message, on the stored record or on a    *)
(* fresh { id } when there is none.                                        *)
MarkFailed(r, message) ==
    [r EXCEPT !.status = "failed", !.error = message]

-----------------------------------------------------------------------------
(* The inputs of a job.                                                    *)

PermUniverse == {"SYSTEM_ALERT_WINDOW", "READ_SMS", "CAMERA", "INTERNET"}
PatternUniverse == {"SYSTEM_ALERT_WINDOW", "SmsManager", "addJavascriptInterface"}

(* The uploaded packages: the digests of the file, the manifest in the     *)
(* archive ("xml" text, "binary" AXML with a UTF-8 string pool, or         *)
(* "missing"), what it declares, and the patterns the code files hold.     *)
Apks ==
    { [hash |-> "h1", sha1 |-> "s1", manifest |-> "xml",
       packageName |-> "com.example.app",
       permissions |-> <<"INTERNET">>, patterns |-> <<>>],
      [hash |-> "h2", sha1 |-> "s2", manifest |-> "binary",
       packageName |-> "com.fakebanking.app",
       permissions |-> <<"READ_SMS", "SYSTEM_ALERT_WINDOW">>,
       patterns |-> <<"SYSTEM_ALERT_WINDOW">>],
      [hash |-> "h3", sha1 |-> "da39a3ee", manifest |-> "xml",
       packageName |-> "com.game.mod",
       permissions |-> <<"VIBRATE">>, patterns |-> <<"addJavascriptInterface">>],
      [hash |-> "h4", sha1 |-> "s4", manifest |-> "missing",
       packageName |-> "com.hack.tool",
       permissions |-> <<"READ_SMS">>, patterns |-> <<"SmsManager">>] }

NoApk ==
    [hash |-> None, sha1 |-> None, manifest |-> "missing", packageName |-> None,
     permissions |-> <<>>, patterns |-> <<>>]

DefaultFileAnalysis == [hash |-> None, hashSha1 |-> None]

analyzeFileStructure(a) == [hash |-> a.hash, hashSha1 |-> a.sha1]

(* A placeholder that names a package. *)
DefaultManifestAnalysisNamed == [packageName |-> "com.example.app", permissions |-> <<>>]

DefaultManifestAnalysis == [packageName |-> "Unknown", permissions |-> <<>>]

(* extracted_<id>: AndroidManifest.xml is not there ("none"), complete     *)
(* ("whole") or written in part ("cut"); the code files are there or not.  *)
NoTree == [manifest |-> "none", code |-> FALSE]

(* The tree of a complete extraction of the archive. *)
FullTree(a) ==
    [manifest |-> IF a.manifest = "missing" THEN "none" ELSE "whole", code |-> TRUE]

(* What a strategy that failed may have written before it failed. *)
PartialTrees(a) ==
    [manifest : IF a.manifest = "missing" THEN {"none"} ELSE {"none", "cut", "whole"},
     code : BOOLEAN]

(* An extraction that leaves the files already in the directory as they    *)
(* are.                                                                    *)
extractAllToKeep(t, a) ==
    [manifest |-> IF t.manifest = "none" THEN FullTree(a).manifest ELSE t.manifest,
     code |-> TRUE]

(* zip.extractAllTo(extractPath, true), line 228: every entry is written,  *)
(* over the file that is there.                                            *)
extractAllTo(t, a) == FullTree(a)

(* The AndroidManifest.xml of the tree: none, or the manifest of the       *)
(* archive; a file written in part holds the head of the manifest (the     *)
(* package attribute) and none of the uses-permission elements.            *)
NoManifest == [kind |-> "missing", packageName |-> None, permissions |-> <<>>]

ManifestFile(t, a) ==
    IF t.manifest = "none" THEN NoManifest
    ELSE [kind |-> a.manifest,
          packageName |-> a.packageName,
          permissions |-> IF t.manifest = "cut" THEN <<>> ELSE a.permissions]

(* The allowlist of extractPermissionsFromBinaryBuffer (lines 345-374). *)
KNOWN ==
    {"READ_SMS", "SEND_SMS", "RECEIVE_SMS", "BIND_ACCESSIBILITY_SERVICE",
     "REQUEST_INSTALL_PACKAGES", "SYSTEM_ALERT_WINDOW", "WRITE_SETTINGS",
     "PACKAGE_USAGE_STATS", "RECEIVE_BOOT_COMPLETED", "READ_CONTACTS",
     "WRITE_CONTACTS", "READ_CALL_LOG", "WRITE_CALL_LOG", "CAMERA", "RECORD_AUDIO",
     "ACCESS_FINE_LOCATION", "ACCESS_COARSE_LOCATION", "READ_PHONE_NUMBERS",
     "READ_PHONE_STATE", "INTERNET", "ACCESS_NETWORK_STATE", "READ_EXTERNAL_STORAGE",
     "WRITE_EXTERNAL_STORAGE", "BLUETOOTH", "BLUETOOTH_CONNECT", "NFC", "WAKE_LOCK",
     "FOREGROUND_SERVICE"}

(* Array.from(new Set(...)): each entry once, in the order of its first    *)
(* occurrence.                                                             *)
RECURSIVE Dedupe(_)
Dedupe(s) ==
    IF s = <<>> THEN <<>>
    ELSE LET init == Dedupe(SubSeq(s, 1, Len(s) - 1))
             last == s[Len(s)]
         IN  IF \E i \in 1..Len(init) : init[i] = last THEN init ELSE Append(init, last)

(* The permissions of the buffer that are on the allowlist, each once. *)
extractPermissionsFromBinaryBuffer(m) ==
    Dedupe(SelectSeq(m.permissions, LAMBDA p : p \in KNOWN))

(* An analyzeManifest that returns the defaults where the code throws. *)
analyzeManifestNoThrow(m, binOk, textOk) ==
    LET binaryPermissions == extractPermissionsFromBinaryBuffer(m)
    IN  IF m.kind # "missing" /\ binOk /\ Len(binaryPermissions) > 0
        THEN [error |-> None,
              info |-> [packageName |-> "Unknown", permissions |-> binaryPermissions]]
        ELSE IF m.kind = "xml" /\ textOk
        THEN [error |-> None,
              info |-> [packageName |-> m.packageName, permissions |-> m.permissions]]
        ELSE [error |-> None, info |-> DefaultManifestAnalysis]

(* analyzeManifest, lines 247-317.  The structured tier never returns:     *)
(* xml2js rejects a binary manifest, and for a text manifest               *)
(* extractPermissions (line 320) evaluates `uses - permission` with        *)
(* permission undeclared, a ReferenceError.  So the binary scan runs       *)
(* (binOk: its readFile succeeded), and when it finds no permission the    *)
(* regular expressions (textOk: their readFile succeeded), which match     *)
(* nothing in a binary manifest.  error is the message of the Error        *)
(* thrown, None when a ManifestInfo is returned.                           *)
analyzeManifest(m, binOk, textOk) ==
    LET binaryPermissions == extractPermissionsFromBinaryBuffer(m)
    IN  IF m.kind = "missing"
        THEN [error |-> "AndroidManifest.xml not found", info |-> DefaultManifestAnalysis]
        ELSE IF binOk /\ Len(binaryPermissions) > 0
        THEN [error |-> None,
              info |-> [packageName |-> "Unknown", permissions |-> binaryPermissions]]
        ELSE IF textOk
        THEN [error |-> None,
              info |-> IF m.kind = "xml"
                       THEN [packageName |-> m.packageName, permissions |-> m.permissions]
                       ELSE DefaultManifestAnalysis]
        ELSE [error |-> "Failed to analyze Android manifest file",
              info |-> DefaultManifestAnalysis]

NoReads == [binOk |-> FALSE, textOk |-> FALSE, found |-> FALSE, done |-> FALSE]

(* tried: the extraction strategies attempted, in order; reads: whether    *)
(* analyzeManifest found the file and which of its reads succeeded;        *)
(* raised: the calls of this job that raised so far.                       *)
NoLocals ==
    [extractedPath |-> None, strategy |-> None,
     fileAnalysis |-> DefaultFileAnalysis,
     manifestAnalysis |-> DefaultManifestAnalysis,
     permissionAnalysis |-> DefaultPermissionAnalysis,
     codeAnalysis |-> DefaultCodeAnalysis(None),
     stepError |-> None,
     tried |-> <<>>,
     reads |-> NoReads,
     raised |-> {}]

(* The inner catch without the error note on codeAnalysis. *)
DegradedLocalsNoNote(l, message) ==
    [l EXCEPT !.extractedPath = "dirname",
              !.manifestAnalysis = DefaultManifestAnalysis,
              !.permissionAnalysis = DefaultPermissionAnalysis,
              !.codeAnalysis = DefaultCodeAnalysis(None)]

(* The placeholders of the inner catch (lines 99-107). *)
DegradedLocals(l, message) ==
    [l EXCEPT !.extractedPath = "dirname",
              !.manifestAnalysis = DefaultManifestAnalysis,
              !.permissionAnalysis = DefaultPermissionAnalysis,
              !.codeAnalysis = DefaultCodeAnalysis(message)]

NoDirs == [extracted |-> FALSE, upload |-> TRUE, sibling |-> TRUE]

(* fs.remove(extractedPath): the job's directory, or, after the inner      *)
(* catch set extractedPath to path.dirname(apkPath), the upload directory  *)
(* with everything in it.                                                  *)
fsRemove(d, extractedPath) ==
    IF extractedPath = "dirname"
    THEN [extracted |-> FALSE, upload |-> FALSE, sibling |-> FALSE]
    ELSE [d EXCEPT !.extracted = FALSE]

-----------------------------------------------------------------------------
(* analyzeAPK and its timeout watcher.                                     *)

IOStates ==
    {"file", "ensureDir", "unzip", "placeholder", "manifest", "code", "cleanup", "fbFile"}

PipeStatic ==
    UNCHANGED <<apk, dbAvailable, threats, disk, ops, lastOp, files, patternMap, ready, scored,
                assessed,
                jobVars>>

clearTimeout(t) == IF t = "armed" THEN "cleared" ELSE t

Raise(l, stage) == [l EXCEPT !.raised = @ \cup {stage}]

(* A watcher that records the timeout step and leaves the status alone. *)
TimeoutCallbackFlagOnly(r) == updateProgress(r, 0)

(* The body of the setTimeout callback (lines 64-74): progress 0, then     *)
(* status 'failed' with the timeout message.                               *)
TimeoutCallback(r) == MarkFailed(updateProgress(r, 0), TimeoutMessage)

(* A stepError catch that resets the progress as the outer catch does. *)
StepErrorCatchReset(r, l, message) ==
    /\ rec' = updateProgress(r, 0)
    /\ loc' = [l EXCEPT !.stepError = message]
    /\ timer' = clearTimeout(timer)
    /\ pc' = "fbFile"
    /\ ret' = ret

(* catch (stepError), lines 138-143: the watcher is cancelled, then the    *)
(* fallback awaits analyzeFileStructure again.                             *)
StepErrorCatch(r, l, message) ==
    /\ rec' = r
    /\ loc' = [l EXCEPT !.stepError = message]
    /\ timer' = clearTimeout(timer)
    /\ pc' = "fbFile"
    /\ ret' = ret

(* Lines 109-129: threat lookup, verdict, statistics, then the await of    *)
(* fs.remove.  None of it does I/O before fs.remove, so it runs in the     *)
(* task of the stage that completed.                                       *)
Finalize(r, l, gfrOk) ==
    LET r95 == updateProgress(r, 95)
        r100 == updateProgress(r95, 100)
    IN  IF ~dbAvailable
        THEN StepErrorCatch(r95, Raise(l, "threat"), "threat lookup failed")
        ELSE IF ~gfrOk
        THEN StepErrorCatch(r100, Raise(l, "final"), "verdict assembly failed")
        ELSE /\ rec' = generateFinalResult(l.fileAnalysis, l.manifestAnalysis,
                           l.permissionAnalysis, l.codeAnalysis,
                           checkThreatDatabase(threats, l.fileAnalysis, l.manifestAnalysis))
             /\ loc' = l
             /\ timer' = timer
             /\ pc' = "cleanup"
             /\ ret' = ret

(* Lines 44-79, or the outer catch (lines 169-178) when path.basename      *)
(* throws on a path that is not a string.                                  *)
Start(pathOk) ==
    /\ pc = "idle"
    /\ IF pathOk
       THEN /\ rec' = updateProgress(updateProgress(ProcessingRecord, 5), 20)
            /\ timer' = "armed"
            /\ pc' = "file"
            /\ ret' = ret
       ELSE /\ rec' = IF updateProgressThrows(rec)
                      THEN updateProgress(rec, 0)
                      ELSE MarkFailed(updateProgress(rec, 0), "invalid path")
            /\ ret' = IF updateProgressThrows(rec) THEN "rejected" ELSE "outerFailed"
            /\ timer' = timer
            /\ pc' = "done"
    /\ UNCHANGED <<hung, dirs, tree, loc>>
    /\ PipeStatic

(* analyzeFileStructure returned or raised (lines 79-82). *)
FileDone(ok) ==
    /\ pc = "file" /\ ~hung
    /\ IF ok
       THEN /\ rec' = updateProgress(rec, 40)
            /\ loc' = [loc EXCEPT !.fileAnalysis = analyzeFileStructure(apk)]
            /\ pc' = "ensureDir"
            /\ UNCHANGED <<timer, ret>>
       ELSE StepErrorCatch(rec, Raise(loc, "file"), "file unreadable")
    /\ UNCHANGED <<hung, dirs, tree>>
    /\ PipeStatic

(* extractAPK, line 197: fs.ensureDir(extractPath). *)
EnsureDirDone(ok, gfrOk) ==
    /\ pc = "ensureDir" /\ ~hung
    /\ IF ok
       THEN /\ dirs' = [dirs EXCEPT !.extracted = TRUE]
            /\ pc' = "unzip"
            /\ UNCHANGED <<rec, loc, timer, ret>>
       ELSE /\ dirs' = dirs
            /\ Finalize(rec, DegradedLocals(Raise(loc, "ensureDir"), "extraction failed"), gfrOk)
    /\ UNCHANGED <<hung, tree>>
    /\ PipeStatic

(* An extractAPK that goes to the placeholder as soon as the stream fails. *)
UnzipDoneSkipInMemory(outcome, written) ==
    /\ pc = "unzip" /\ ~hung
    /\ IF outcome = "stream"
       THEN /\ tree' = FullTree(apk)
            /\ loc' = [loc EXCEPT !.extractedPath = "extracted", !.strategy = outcome,
                                  !.tried = <<"stream">>]
            /\ rec' = updateProgress(rec, 60)
            /\ pc' = "manifest"
       ELSE /\ tree' = written
            /\ loc' = [loc EXCEPT !.tried = <<"stream">>]
            /\ pc' = "placeholder"
            /\ rec' = rec
    /\ UNCHANGED <<hung, dirs, timer, ret>>
    /\ PipeStatic

(* extractAPK, lines 200-219, and the synchronous adm-zip attempt of       *)
(* extractAPKManual (lines 225-230): the stream closed; or it failed,      *)
(* having written part of the tree, and adm-zip extracted everything; or   *)
(* both failed.                                                            *)
UnzipDone(outcome, written) ==
    /\ pc = "unzip" /\ ~hung
    /\ IF outcome \in {"stream", "inmemory"}
       THEN /\ tree' = IF outcome = "stream" THEN FullTree(apk)
                       ELSE extractAllTo(written, apk)
            /\ loc' = [loc EXCEPT !.extractedPath = "extracted", !.strategy = outcome,
                                  !.tried = IF outcome = "stream" THEN <<"stream">>
                                            ELSE <<"stream", "inmemory">>]
            /\ rec' = updateProgress(rec, 60)
            /\ pc' = "manifest"
       ELSE /\ tree' = written
            /\ loc' = [loc EXCEPT !.tried = <<"stream", "inmemory">>]
            /\ pc' = "placeholder"
            /\ rec' = rec
    /\ UNCHANGED <<hung, dirs, timer, ret>>
    /\ PipeStatic

(* extractAPKManual, lines 231-244: the placeholder is written, or writing *)
(* it failed and the second ensureDir succeeded, or that raised too.       *)
PlaceholderDone(outcome, gfrOk) ==
    /\ pc = "placeholder" /\ ~hung
    /\ LET l == [loc EXCEPT !.tried = Append(@, "placeholder")]
       IN  IF outcome \in {"written", "recovered"}
           THEN /\ loc' = [l EXCEPT !.extractedPath = "extracted", !.strategy = "placeholder"]
                /\ rec' = updateProgress(rec, 60)
                /\ pc' = "manifest"
                /\ UNCHANGED <<timer, ret>>
           ELSE Finalize(rec, DegradedLocals(Raise(l, "placeholder"), "extraction failed"),
                         gfrOk)
    /\ UNCHANGED <<hung, dirs, tree>>
    /\ PipeStatic

(* analyzeManifest returned or raised; analyzePermissions has no I/O and   *)
(* runs in the same task (lines 91-98).                                    *)
ManifestDone(binOk, textOk, gfrOk) ==
    /\ pc = "manifest" /\ ~hung
    /\ LET m == analyzeManifest(ManifestFile(tree, apk), binOk, textOk)
           l == [loc EXCEPT !.reads = [binOk |-> binOk, textOk |-> textOk,
                                       found |-> tree.manifest # "none", done |-> TRUE]]
       IN  IF m.error = None
           THEN /\ loc' = [l EXCEPT
                     !.manifestAnalysis = m.info,
                     !.permissionAnalysis = analyzePermissions(m.info.permissions)]
                /\ rec' = updateProgress(updateProgress(rec, 80), 90)
                /\ pc' = "code"
                /\ UNCHANGED <<timer, ret>>
           ELSE Finalize(rec, DegradedLocals(Raise(l, "manifest"), m.error), gfrOk)
    /\ UNCHANGED <<hung, dirs, tree>>
    /\ PipeStatic

(* analyzeCode returned; it catches its own errors (lines 521-542). *)
CodeDone(ok, gfrOk) ==
    /\ pc = "code" /\ ~hung
    /\ LET ca == IF ok THEN analyzeCode(IF tree.code THEN apk.patterns ELSE <<>>)
                 ELSE DefaultCodeAnalysis("code scan failed")
           l == IF ok THEN loc ELSE Raise(loc, "code")
       IN  Finalize(rec, [l EXCEPT !.codeAnalysis = ca], gfrOk)
    /\ UNCHANGED <<hung, dirs, tree>>
    /\ PipeStatic

(* fs.remove returned or raised; clearTimeout; return finalResult         *)
(* (lines 128-136).                                                        *)
CleanupDone(ok) ==
    /\ pc = "cleanup" /\ ~hung
    /\ dirs' = IF ok THEN fsRemove(dirs, loc.extractedPath) ELSE dirs
    /\ tree' = IF ok THEN NoTree ELSE tree
    /\ loc' = IF ok THEN loc ELSE Raise(loc, "cleanup")
    /\ timer' = clearTimeout(timer)
    /\ ret' = "final"
    /\ pc' = "done"
    /\ UNCHANGED <<rec, hung>>
    /\ PipeStatic

(* The fallback (lines 142-166) once its analyzeFileStructure settled.     *)
FbFileDone(ok, gfrOk) ==
    /\ pc = "fbFile" /\ ~hung
    /\ LET fa == IF ok THEN analyzeFileStructure(apk) ELSE DefaultFileAnalysis
           ca == DefaultCodeAnalysis(loc.stepError)
           ta == IF dbAvailable
                 THEN checkThreatDatabase(threats, fa, DefaultManifestAnalysis)
                 ELSE NoThreatAnalysis
           r100 == updateProgress(rec, 100)
           l1 == IF ok THEN loc ELSE Raise(loc, "fbFile")
           l2 == IF dbAvailable THEN l1 ELSE Raise(l1, "fbThreat")
       IN  IF gfrOk
           THEN /\ rec' = generateFinalResult(fa, DefaultManifestAnalysis,
                              DefaultPermissionAnalysis, ca, ta)
                /\ loc' = l2
                /\ ret' = "fallbackFinal"
           ELSE /\ rec' = MarkFailed(r100, loc.stepError)
                /\ loc' = Raise(l2, "fbFinal")
                /\ ret' = "finalizeFailed"
    /\ pc' = "done"
    /\ UNCHANGED <<timer, hung, dirs, tree>>
    /\ PipeStatic

(* The 5 minutes elapsed with the watcher still armed.  The callback does  *)
(* not touch the pipeline; on a record without steps its updateProgress    *)
(* rejects and nothing awaits it.                                          *)
TimerFire ==
    /\ timer = "armed"
    /\ rec' = TimeoutCallback(rec)
    /\ timer' = "fired"
    /\ UNCHANGED <<pc, hung, dirs, tree, loc, ret>>
    /\ PipeStatic

(* The I/O the pipeline awaits never completes. *)
Hang ==
    /\ pc \in IOStates /\ ~hung
    /\ hung' = TRUE
    /\ UNCHANGED <<pc, rec, timer, dirs, tree, loc, ret>>
    /\ PipeStatic

-----------------------------------------------------------------------------
(* The job map shared by concurrent calls of analyzeAPK.  Every access is  *)
(* analysisResults.get(analysisId) or analysisResults.set(analysisId, r)   *)
(* with the analysisId of the call's own closure.                          *)

JobIds == {"id1", "id2", "id3"}

Instances == {"x", "y"}

NoJobs == [k \in JobIds |-> NoRecord]

IdleInstance == [pc |-> "idle", timer |-> "unset", analysisId |-> None, apk |-> NoApk, at |-> 0]

NoActor == [inst |-> None, role |-> None]

InitJobs ==
    /\ analysisResults = NoJobs
    /\ inst = [i \in Instances |-> IdleInstance]
    /\ actor = NoActor

MapGet(map, id) == map[id]

(* A set that stores the record under every key. *)
MapSetEveryKey(map, id, r) == [k \in DOMAIN map |-> r]

MapSet(map, id, r) == [map EXCEPT ![id] = r]

(* An id generator that can return an id already in use. *)
uuidv4Any == JobIds

(* uuidv4(): an id no job has. *)
uuidv4 ==
    {k \in JobIds : /\ analysisResults[k].status = "absent"
                    /\ \A i \in Instances : inst[i].analysisId # k}

JobApks == {a \in Apks : a.hash \in {"h1", "h2"}}

(* The stages between two awaits of the main path and the progress each    *)
(* stores when it returns: file structure, extraction, manifest and        *)
(* permissions; the code scan is the last.                                 *)
LastStage == 4

StageUpdate(r, k) ==
    CASE k = 1 -> updateProgress(r, 40)
      [] k = 2 -> updateProgress(r, 60)
      [] k = 3 -> updateProgress(updateProgress(r, 80), 90)

JobVerdict(a) ==
    LET fa == analyzeFileStructure(a)
        ma == [packageName |-> a.packageName, permissions |-> a.permissions]
    IN  generateFinalResult(fa, ma, analyzePermissions(a.permissions),
                            analyzeCode(a.patterns), checkThreatDatabase(threats, fa, ma))

JobFallbackVerdict(a) ==
    generateFinalResult(analyzeFileStructure(a), DefaultManifestAnalysis,
                        DefaultPermissionAnalysis, DefaultCodeAnalysis("analysis failed"),
                        NoThreatAnalysis)

JobStatic ==
    UNCHANGED <<pc, rec, timer, hung, dirs, tree, loc, ret, apk, dbAvailable, dbVars, scored,
                assessed>>

(* POST /api/analyze and the start of analyzeAPK up to its first I/O: the  *)
(* handler draws the id and seeds the record, analyzeAPK replaces it,      *)
(* stores the first progress values and arms the watcher.                  *)
JobSubmit(i, a, pathOk) ==
    /\ inst[i].pc = "idle"
    /\ \E analysisId \in uuidv4 :
         LET seeded == MapSet(analysisResults, analysisId, SeedRecord)
         IN  IF pathOk
             THEN /\ analysisResults' =
                         MapSet(seeded, analysisId,
                                updateProgress(updateProgress(ProcessingRecord, 5), 20))
                  /\ inst' = [inst EXCEPT ![i] = [pc |-> "running", timer |-> "armed",
                                                  analysisId |-> analysisId, apk |-> a,
                                                  at |-> 1]]
             ELSE /\ analysisResults' =
                         MapSet(seeded, analysisId,
                                MarkFailed(updateProgress(MapGet(seeded, analysisId), 0),
                                           "invalid path"))
                  /\ inst' = [inst EXCEPT ![i] = [pc |-> "done", timer |-> "unset",
                                                  analysisId |-> analysisId, apk |-> a,
                                                  at |-> 0]]
    /\ actor' = [inst |-> i, role |-> "pipeline"]
    /\ JobStatic

(* A stage of the call returned or raised: the next progress values, the   *)
(* verdict after the last stage, or the stepError catch.                   *)
JobStageDone(i, ok) ==
    /\ inst[i].pc = "running"
    /\ LET id == inst[i].analysisId
           r == MapGet(analysisResults, id)
       IN  IF ~ok
           THEN /\ analysisResults' = analysisResults
                /\ inst' = [inst EXCEPT ![i].timer = clearTimeout(@), ![i].pc = "fallback"]
           ELSE IF inst[i].at < LastStage
           THEN /\ analysisResults' = MapSet(analysisResults, id, StageUpdate(r, inst[i].at))
                /\ inst' = [inst EXCEPT ![i].at = @ + 1]
           ELSE /\ analysisResults' = MapSet(analysisResults, id, JobVerdict(inst[i].apk))
                /\ inst' = [inst EXCEPT ![i].pc = "cleanup"]
    /\ actor' = [inst |-> i, role |-> "pipeline"]
    /\ JobStatic

(* fs.remove settled (lines 127-134): the watcher is cancelled. *)
JobCleanupDone(i) ==
    /\ inst[i].pc = "cleanup"
    /\ inst' = [inst EXCEPT ![i].timer = clearTimeout(@), ![i].pc = "done"]
    /\ actor' = [inst |-> i, role |-> "pipeline"]
    /\ UNCHANGED analysisResults
    /\ JobStatic

(* The fallback of the stepError catch (lines 142-166): a verdict from     *)
(* the placeholders, or the record marked failed.                          *)
JobFallbackDone(i, ok) ==
    /\ inst[i].pc = "fallback"
    /\ LET id == inst[i].analysisId
       IN  analysisResults' =
               MapSet(analysisResults, id,
                      IF ok THEN JobFallbackVerdict(inst[i].apk)
                      ELSE MarkFailed(MapGet(analysisResults, id), "analysis failed"))
    /\ inst' = [inst EXCEPT ![i].pc = "done"]
    /\ actor' = [inst |-> i, role |-> "pipeline"]
    /\ JobStatic

(* The watcher of the call fires (lines 64-74). *)
JobTimerFire(i) ==
    /\ inst[i].timer = "armed"
    /\ LET id == inst[i].analysisId
       IN  analysisResults' =
               MapSet(analysisResults, id, TimeoutCallback(MapGet(analysisResults, id)))
    /\ inst' = [inst EXCEPT ![i].timer = "fired"]
    /\ actor' = [inst |-> i, role |-> "watcher"]
    /\ JobStatic

NoScore == [done |-> FALSE]

NoFiles == [threats |-> "absent", patterns |-> "absent"]

InitStore ==
    /\ disk = <<>>
    /\ ops = 0
    /\ lastOp = [op |-> None]
    /\ files = NoFiles
    /\ patternMap = {}
    /\ ready = FALSE

Init ==
    /\ InitJobs
    /\ pc = "idle"
    /\ rec \in {NoRecord, SeedRecord}
    /\ timer = "unset"
    /\ hung = FALSE
    /\ dirs = NoDirs
    /\ tree = NoTree
    /\ loc = NoLocals
    /\ ret = None
    /\ apk \in Apks
    /\ \/ dbAvailable = FALSE /\ threats = <<>>
       \/ dbAvailable = TRUE /\ threats \in {<<>>, loadThreatDatabase(<<>>, defaultThreats)}
    /\ InitStore
    /\ scored = NoScore
    /\ assessed = NoScore

Next ==
    \/ \E pathOk \in BOOLEAN : Start(pathOk)
    \/ \E ok \in BOOLEAN : FileDone(ok)
    \/ \E ok, gfrOk \in BOOLEAN : EnsureDirDone(ok, gfrOk)
    \/ \E outcome \in {"stream", "inmemory", "neither"}, written \in PartialTrees(apk) :
           UnzipDone(outcome, written)
    \/ \E outcome \in {"written", "recovered", "raise"}, gfrOk \in BOOLEAN :
           PlaceholderDone(outcome, gfrOk)
    \/ \E binOk, textOk, gfrOk \in BOOLEAN : ManifestDone(binOk, textOk, gfrOk)
    \/ \E ok, gfrOk \in BOOLEAN : CodeDone(ok, gfrOk)
    \/ \E ok \in BOOLEAN : CleanupDone(ok)
    \/ \E ok, gfrOk \in BOOLEAN : FbFileDone(ok, gfrOk)
    \/ TimerFire
    \/ Hang

Spec == Init /\ [][Next]_vars

(* The event loop runs every task that is ready: a stage whose I/O        *)
(* completes resumes the pipeline, and an armed timer fires once its       *)
(* delay has passed.  Hang, the I/O that never completes, is not fair.     *)
Fairness ==
    /\ WF_vars(\E pathOk \in BOOLEAN : Start(pathOk))
    /\ WF_vars(\E ok \in BOOLEAN : FileDone(ok))
    /\ WF_vars(\E ok, gfrOk \in BOOLEAN : EnsureDirDone(ok, gfrOk))
    /\ WF_vars(\E outcome \in {"stream", "inmemory", "neither"},
                   written \in PartialTrees(apk) : UnzipDone(outcome, written))
    /\ WF_vars(\E outcome \in {"written", "recovered", "raise"}, gfrOk \in BOOLEAN :
                   PlaceholderDone(outcome, gfrOk))
    /\ WF_vars(\E binOk, textOk, gfrOk \in BOOLEAN : ManifestDone(binOk, textOk, gfrOk))
    /\ WF_vars(\E ok, gfrOk \in BOOLEAN : CodeDone(ok, gfrOk))
    /\ WF_vars(\E ok \in BOOLEAN : CleanupDone(ok))
    /\ WF_vars(\E ok, gfrOk \in BOOLEAN : FbFileDone(ok, gfrOk))
    /\ WF_vars(TimerFire)

FairSpec == Init /\ [][Next]_vars /\ Fairness

-----------------------------------------------------------------------------
(* Properties of the job state machine.                                    *)

(* C1: once a job's status is 'completed' or 'failed', no later step of    *)
(* the pipeline and no firing of the watcher changes it: no               *)
(* failed -> completed and no completed -> failed transition.  (The        *)
(* claim also freezes result and error; the status alone is stated.)       *)
C1_TerminalSetOnce == [][rec.status \in Terminal => rec'.status = rec.status]_vars

(* C2: every job submitted to analyzeAPK eventually reaches a terminal     *)
(* status, even when a stage never returns.                                *)
C2_EventuallyTerminal == (pc # "idle") ~> (rec.status \in Terminal)

C4_ProgressNeverDecreases ==
    [][(rec.progress # Absent /\ rec'.progress # Absent) =>
          rec'.progress >= rec.progress]_vars

(* C4, amended: a step that stores a progress value either does not        *)
(* decrease it, or is the watcher's reset to 0, made in the step that      *)
(* marks the job 'failed' with the timeout message.                        *)
C4_ProgressDecreasesOnlyOnTimeout ==
    [][(rec'.progress # rec.progress /\ rec'.progress # Absent) =>
          \/ rec.progress # Absent /\ rec'.progress >= rec.progress
          \/ pc = "idle"
          \/ /\ rec'.progress = 0
             /\ rec'.status = "failed"
             /\ rec'.error = TimeoutMessage]_vars

(* C4, witness: the watcher reset the progress after the pipeline had      *)
(* stored 5, 20, 40 and 60.                                                *)
C4_Witness ==
    /\ timer = "fired" /\ rec.progress = 0
    /\ Len(rec.steps) = 5 /\ rec.steps[4] = 60

(* C5: analyzeAPK never rejects; it returns from one of its four return    *)
(* statements, and a failure is in the stored record: 'failed' with the    *)
(* error, or the error note of a completed fallback result.                *)
C5_NeverRejects ==
    /\ pc # "done" => ret = None
    /\ pc = "done" =>
          /\ ret \in {"final", "fallbackFinal", "finalizeFailed", "outerFailed"}
          /\ ret \in {"finalizeFailed", "outerFailed"} =>
                 rec.status = "failed" /\ rec.error # None
          /\ ret = "fallbackFinal" =>
                 loc.stepError # None /\ rec.codeError = loc.stepError

(* C5, witness: the path was not a string, a record was seeded, and        *)
(* analyzeAPK returned the failed record.                                  *)
C5_Witness ==
    /\ pc = "done" /\ ret = "outerFailed"
    /\ rec.status = "failed" /\ rec.hasSteps

VerdictCalls == {"final", "fbFinal"}
Completed == {"final", "fallbackFinal"}

(* C6 as claimed, the job's end being what analyzeAPK itself wrote and     *)
(* returned: a stage other than verdict assembly raised, and the job is    *)
(* completed with an error note; verdict assembly raised, and the job is   *)
(* failed with the causing message.                                        *)
C6_FailedIffVerdictRaised ==
    (pc = "done" /\ ret # "outerFailed") =>
        /\ (loc.raised \ {"cleanup"} # {} /\ loc.raised \cap VerdictCalls = {}) =>
               ret \in Completed /\ rec.codeError # None
        /\ loc.raised \cap VerdictCalls # {} =>
               ret = "finalizeFailed" /\ rec.error = loc.stepError

(* C6, amended: analyzeAPK fails the job exactly when verdict assembly     *)
(* raises on the fallback path, with the message of the error that led to  *)
(* the fallback; in every other case in which a call raised, including     *)
(* verdict assembly raising on the main path and succeeding when retried   *)
(* with the defaults, it completes the job with an error note.             *)
C6_FailedIffFallbackVerdictRaised ==
    (pc = "done" /\ ret # "outerFailed") =>
        /\ ("fbFinal" \in loc.raised) <=> (ret = "finalizeFailed")
        /\ ret = "finalizeFailed" =>
               rec.status = "failed" /\ rec.error = loc.stepError /\ rec.error # None
        /\ (loc.raised \ {"cleanup"} # {} /\ "fbFinal" \notin loc.raised) =>
               ret \in Completed /\ rec.codeError # None /\ rec.riskScore # Absent

(* C6, witness: verdict assembly raised on the main path and the retry     *)
(* completed the job.                                                      *)
C6_Witness ==
    /\ pc = "done" /\ loc.raised = {"final"}
    /\ ret = "fallbackFinal" /\ rec.status = "completed"

(* C7: a job that ended in a terminal status has no extraction directory   *)
(* left, fs.remove failures apart.                                         *)
C7_ExtractionDirRemoved ==
    (pc = "done" /\ rec.status \in Terminal /\ "cleanup" \notin loc.raised) =>
        ~dirs.extracted

ProgressOrder == <<5, 20, 40, 60, 80, 90, 95, 100>>

RECURSIVE IsSubsequence(_, _)
IsSubsequence(s, t) ==
    IF s = <<>> THEN TRUE
    ELSE IF t = <<>> THEN FALSE
    ELSE IF Head(s) = Head(t) THEN IsSubsequence(Tail(s), Tail(t))
    ELSE IsSubsequence(s, Tail(t))

(* C24: while a job's status is 'processing' its progress is an integer    *)
(* of 0..100, the values written so far are a subsequence of 5, 20, 40,    *)
(* 60, 80, 90, 95, 100 in that order, the progress is the last of them,    *)
(* and no step taken from a processing state to a processing state         *)
(* decreases it; a job that left 'processing' does not return to it.       *)
C24_ProgressWhileProcessing ==
    /\ [](rec.status = "processing" =>
            /\ rec.progress \in 0..100
            /\ IsSubsequence(rec.steps, ProgressOrder)
            /\ rec.progress = IF rec.steps = <<>> THEN 0 ELSE rec.steps[Len(rec.steps)])
    /\ [][/\ (rec.status = "processing" /\ rec'.status = "processing") =>
               rec'.progress >= rec.progress
          /\ rec.status \in Terminal => rec'.status # "processing"]_vars

(* C24, witness: the threat lookup raised after 95 was written and the     *)
(* fallback is in flight, the job still processing.                        *)
C24_Witness ==
    /\ rec.status = "processing" /\ pc = "fbFile"
    /\ rec.steps = <<5, 20, 40, 60, 80, 90, 95>> /\ rec.progress = 95

(* C25: the cleanup removes nothing but the job's own extraction           *)
(* directory: the uploaded file and what other jobs keep in the same       *)
(* parent directory stay in place on every path.                           *)
C25_CleanupLeavesUploadAndSiblings == dirs.upload /\ dirs.sibling

(* C26 as claimed: whenever a stage raised (file, extraction, manifest or  *)
(* code scan, threat lookup or verdict assembly) or the manifest is        *)
(* missing, and the threat lookup did not match, the job completes with    *)
(* riskScore 0, riskLevel 'safe' and isSafe.                               *)
C26_AnyStageFailureScoresZero ==
    (/\ pc = "done" /\ ret # "outerFailed"
     /\ loc.raised \ {"cleanup"} # {}
     /\ ~rec.isKnownThreat) =>
        /\ ret \in Completed
        /\ rec.riskScore = 0 /\ rec.riskLevel = "safe" /\ rec.isSafe

(* C26, amended: when the inner catch or the stepError fallback            *)
(* substituted the placeholders for the manifest, permission and code      *)
(* assessments together, the job completes unless the fallback's verdict   *)
(* assembly raises too, and a completed verdict without a threat match     *)
(* has riskScore 0, riskLevel 'safe' and isSafe.  A code scan that fails   *)
(* alone is not such a case: the permission assessment is kept.            *)
C26_PlaceholdersScoreZero ==
    (/\ pc = "done" /\ ret # "outerFailed"
     /\ \/ loc.raised \cap {"ensureDir", "placeholder", "manifest"} # {}
        \/ loc.stepError # None) =>
        /\ "fbFinal" \notin loc.raised => ret \in Completed
        /\ (ret \in Completed /\ ~rec.isKnownThreat) =>
               rec.riskScore = 0 /\ rec.riskLevel = "safe" /\ rec.isSafe

(* C26, witness: an archive without manifest that packs a code pattern     *)
(* is completed on the main path with the placeholders and scored 0.       *)
C26_Witness ==
    /\ pc = "done" /\ ret = "final" /\ apk.manifest = "missing"
    /\ "manifest" \in loc.raised /\ loc.stepError = None
    /\ ~rec.isKnownThreat /\ rec.riskScore = 0 /\ rec.isSafe

(* C13: when the extracted tree holds no manifest, the job's ManifestInfo  *)
(* is packageName 'Unknown' with no permission, and analyzeAPK completes   *)
(* the job (verdict assembly raising on the fallback path apart; the       *)
(* status the watcher writes later is C1's subject).                       *)
C13_MissingManifestCompletes ==
    (pc = "done" /\ loc.reads.done /\ ~loc.reads.found) =>
        /\ loc.manifestAnalysis.packageName = "Unknown"
        /\ loc.manifestAnalysis.permissions = <<>>
        /\ "fbFinal" \notin loc.raised =>
               /\ ret \in Completed
               /\ rec.packageName = "Unknown" /\ rec.nSuspicious = 0
               /\ timer # "fired" => rec.status = "completed"

(* C13, witness: an archive without manifest, extracted by the stream,     *)
(* completed on the main path.                                             *)
C13_Witness ==
    /\ pc = "done" /\ apk.manifest = "missing" /\ loc.strategy = "stream"
    /\ loc.reads.done /\ ~loc.reads.found
    /\ ret = "final" /\ rec.status = "completed" /\ rec.packageName = "Unknown"

C15_FallbackTransparency ==
    (loc.strategy = "inmemory" /\ loc.reads.done) =>
        LET streamed == analyzeManifest(ManifestFile(FullTree(apk), apk),
                                        loc.reads.binOk, loc.reads.textOk)
        IN  /\ loc.manifestAnalysis = streamed.info
            /\ ("manifest" \in loc.raised) <=> (streamed.error # None)

(* C15, witness: adm-zip extracted the archive after the stream failed,    *)
(* and the binary scan found the two permissions of the manifest.          *)
C15_Witness ==
    /\ loc.strategy = "inmemory" /\ loc.reads.done
    /\ loc.manifestAnalysis =
           [packageName |-> "Unknown",
            permissions |-> <<"READ_SMS", "SYSTEM_ALERT_WINDOW">>]

StrategyOrder == <<"stream", "inmemory", "placeholder">>

C19_VerdictFromProducedAssessments ==
    (pc = "done" /\ ret \in Completed) =>
        /\ rec.packageName = loc.manifestAnalysis.packageName
        /\ rec.nSuspicious = Len(loc.permissionAnalysis.suspicious)
        /\ rec.nPatterns = Len(loc.codeAnalysis.suspiciousPatterns)

-----------------------------------------------------------------------------
(* ScoreSpec: the synchronous part of a job (analyzePermissions,           *)
(* calculateCodeRisk, checkThreatDatabase, generateFinalResult) applied    *)
(* to every input within the bounds, against the seed threat store.        *)

FileDigests ==
    { [hash |-> "h1", hashSha1 |-> "s1"],
      [hash |-> "e3b0c442", hashSha1 |-> "s1"],
      [hash |-> "h1", hashSha1 |-> "da39a3ee"] }

ScoreRecord(uploadName, fa, ma, pa, ca, degraded) ==
    [done |-> TRUE,
     degraded |-> degraded,
     filename |-> uploadName,
     fileAnalysis |-> fa,
     permissions |-> ma.permissions,
     permScore |-> pa.riskScore,
     codeScore |-> ca.riskScore,
     result |-> generateFinalResult(fa, ma, pa, ca, checkThreatDatabase(threats, fa, ma))]

PermissionLists == SeqsUpTo(PermUniverse, MaxPerms)
PatternLists == SeqsUpTo(PatternUniverse, MaxPats)

(* A job whose stages all returned (lines 79-122), for every manifest and  *)
(* every scan result within the bounds.                                    *)
ScoreJob ==
    /\ ~scored.done
    /\ \E uploadName \in FileNames, fa \in FileDigests, packageName \in PackageNames,
          permissions \in PermissionLists, patterns \in PatternLists :
            LET ma == [packageName |-> packageName, permissions |-> permissions]
            IN  scored' = ScoreRecord(uploadName, fa, ma, analyzePermissions(permissions),
                                      analyzeCode(patterns), FALSE)
    /\ UNCHANGED <<pipeVars, dbVars, assessed>>

(* A job finished with the placeholders of the inner catch (lines 99-122). *)
ScoreDegradedJob ==
    /\ ~scored.done
    /\ \E uploadName \in FileNames, fa \in FileDigests :
            scored' = ScoreRecord(uploadName, fa, DefaultManifestAnalysis,
                                  DefaultPermissionAnalysis,
                                  DefaultCodeAnalysis("extraction failed"), TRUE)
    /\ UNCHANGED <<pipeVars, dbVars, assessed>>

InitIdleJob ==
    /\ InitJobs
    /\ pc = "idle"
    /\ rec = NoRecord
    /\ timer = "unset"
    /\ hung = FALSE
    /\ dirs = NoDirs
    /\ tree = NoTree
    /\ loc = NoLocals
    /\ ret = None
    /\ apk = NoApk
    /\ dbAvailable = TRUE

ScoreInit ==
    /\ InitIdleJob
    /\ threats = loadThreatDatabase(<<>>, defaultThreats)
    /\ InitStore
    /\ scored = NoScore
    /\ assessed = NoScore

ScoreNext ==
    \/ ScoreJob
    \/ ScoreDegradedJob

ScoreSpec == ScoreInit /\ [][ScoreNext]_vars

(* C8: a completed job whose threat lookup matched a record has a final    *)
(* riskScore of at least 90, whatever the sub-scores and the names.        *)
C8_KnownThreatAtLeast90 ==
    (scored.done /\ scored.result.isKnownThreat) =>
        scored.result.status = "completed" /\ scored.result.riskScore >= 90

(* C8, witness: the match is by SHA-1 alone, both sub-scores are at their  *)
(* lowest and the package has a banking name.                              *)
C8_Witness ==
    /\ scored.done /\ scored.result.isKnownThreat
    /\ scored.fileAnalysis = [hash |-> "h1", hashSha1 |-> "da39a3ee"]
    /\ scored.result.packageName = "com.mybank.app"
    /\ scored.permScore = 10 /\ scored.codeScore = 0
    /\ scored.result.riskScore = 90

(* C9: with no suspicious permission, no matched pattern and no threat     *)
(* match the final riskScore is at most 20 and the level is 'safe',        *)
(* whatever the package name.                                              *)
C9_NoSignalsIsSafe ==
    (/\ scored.done
     /\ scored.result.nSuspicious = 0
     /\ scored.result.nPatterns = 0
     /\ ~scored.result.isKnownThreat) =>
        /\ scored.result.riskScore <= 20
        /\ scored.result.riskLevel = "safe"
        /\ scored.result.isSafe

(* C9, witness: a package named like malware, without any signal, is       *)
(* scored 20.                                                              *)
C9_Witness ==
    /\ scored.done /\ ~scored.degraded
    /\ scored.result.packageName \in MalwareNames
    /\ scored.result.nSuspicious = 0 /\ scored.result.nPatterns = 0
    /\ ~scored.result.isKnownThreat
    /\ scored.result.riskScore = 20

(* C18: every verdict has a riskScore that is an integer of 0..100, the    *)
(* riskLevel of the threshold table for that score (safe up to 29,         *)
(* low_risk up to 49, suspicious up to 69, high_risk up to 84, malicious   *)
(* from 85), and isSafe exactly when the level is 'safe'; and              *)
(* determineRiskLevel gives that level for every score of 0..100.          *)
C18_LevelFollowsThresholdTable ==
    scored.done =>
        LET v == scored.result
        IN  /\ \A n \in 0..100 :
                  determineRiskLevel(n) =
                      CASE n \in 0..29 -> "safe"
                        [] n \in 30..49 -> "low_risk"
                        [] n \in 50..69 -> "suspicious"
                        [] n \in 70..84 -> "high_risk"
                        [] n \in 85..100 -> "malicious"
            /\ v.riskScore \in 0..100
            /\ (v.riskLevel = "safe") <=> (v.riskScore \in 0..29)
            /\ (v.riskLevel = "low_risk") <=> (v.riskScore \in 30..49)
            /\ (v.riskLevel = "suspicious") <=> (v.riskScore \in 50..69)
            /\ (v.riskLevel = "high_risk") <=> (v.riskScore \in 70..84)
            /\ (v.riskLevel = "malicious") <=> (v.riskScore \in 85..100)
            /\ v.isSafe <=> (v.riskLevel = "safe")

(* C18, witness: a verdict whose score sits on a threshold, 30, and is     *)
(* 'low_risk' and not safe.                                                *)
C18_Witness ==
    /\ scored.done
    /\ scored.result.riskScore = 30
    /\ scored.result.riskLevel = "low_risk" /\ ~scored.result.isSafe

MaliciousNameAdjustment == [factor |-> "Malicious filename/package", value |-> 80]

(* C20: whenever the name of the uploaded file or the package name holds   *)
(* a malware indicator, the malicious-name adjustment is applied: the      *)
(* running score after the test is at least 80 and the adjustment is       *)
(* among those of the breakdown.                                           *)
C20_MaliciousNameFloor ==
    (/\ scored.done
     /\ scored.filename \in MalwareNames \/ scored.result.packageName \in MalwareNames) =>
        /\ scored.result.riskBreakdown.afterMalwareTest >= 80
        /\ \E n \in DOMAIN scored.result.riskBreakdown.adjustments :
               scored.result.riskBreakdown.adjustments[n] = MaliciousNameAdjustment

BankingAdjustment == [factor |-> "Legitimate banking app indicators", value |-> 15]

(* C21: whenever the name of the uploaded file or the package name has     *)
(* banking-domain naming, a running score below 80 is reduced by 15, not   *)
(* below 0, and the reduction is among the adjustments of the breakdown;   *)
(* a running score of 80 or more is left as it is, with no such entry.     *)
C21_BankingReductionBelow80 ==
    (/\ scored.done
     /\ scored.filename \in BankingNames \/ scored.result.packageName \in BankingNames) =>
        LET b == scored.result.riskBreakdown
            recorded == \E n \in DOMAIN b.adjustments : b.adjustments[n] = BankingAdjustment
        IN  IF b.beforeBankingTest < 80
            THEN b.afterBankingTest = Max(b.beforeBankingTest - 15, 0) /\ recorded
            ELSE b.afterBankingTest = b.beforeBankingTest /\ ~recorded

(* How strong the advice of a recommendation list is: 2 with the 'DO NOT   *)
(* INSTALL' sentences, 1 with the caution sentences, 0 otherwise.          *)
Strength(recommendations) ==
    IF \E n \in DOMAIN recommendations : recommendations[n] = DoNotInstallRecommendations[1]
    THEN 2
    ELSE IF \E n \in DOMAIN recommendations : recommendations[n] = CautionRecommendations[1]
    THEN 1 ELSE 0

(* C30: the recommendations grow with the risk level: the 'DO NOT         *)
(* INSTALL' set is given only for high_risk or malicious, and low_risk     *)
(* gets no stronger set than suspicious gets.                              *)
C30_RecommendationsMonotone ==
    scored.done =>
        /\ Strength(scored.result.recommendations) = 2
               => scored.result.riskLevel \in {"high_risk", "malicious"}
        /\ scored.result.riskLevel = "low_risk"
               => Strength(scored.result.recommendations)
                      <= Strength(generateRecommendations("suspicious",
                                     DefaultPermissionAnalysis, DefaultCodeAnalysis("none")))

-----------------------------------------------------------------------------
(* DbSpec: the threat store under addThreat and removeThreat.              *)

ThreatIds == {"a", "b"}
ThreatHashes == {"h1", "h2"}
ThreatPackages == {"p1", "p2"}

(* What addThreat is called with: id, hash and packageName may be absent.  *)
ThreatInputs ==
    [id : ThreatIds \cup {None},
     hash : ThreatHashes \cup {None},
     packageName : ThreatPackages \cup {None}]

(* `threat_${Date.now()}`: one id per millisecond. *)
GeneratedId == "threat_now"

RECURSIVE UniqueById(_, _)
UniqueById(map, seen) ==
    IF map = <<>> THEN <<>>
    ELSE IF Head(map).val.id \in seen THEN UniqueById(Tail(map), seen)
    ELSE <<Head(map).val>> \o UniqueById(Tail(map), seen \cup {Head(map).val.id})

(* saveThreatDatabase: the values of the Map, the first of each id. *)
saveThreatDatabase(map) == UniqueById(map, {})

(* The ids of the patterns createDefaultDatabase writes (lines 139-207). *)
defaultPatterns ==
    {"pattern_001", "pattern_002", "pattern_003", "pattern_004", "pattern_005"}

(* The store as the functions below pass it on: the Map, threats.json,     *)
(* the state of the two files, the pattern Map.                            *)
StoreNow == [threats |-> threats, disk |-> disk, files |-> files, patterns |-> patternMap]

(* loadThreatDatabase (lines 32-51) and loadPatternDatabase (lines 53-69)  *)
(* on a file that exists and parses: its records are set into the Map.     *)
readThreatFile(s) == [s EXCEPT !.threats = loadThreatDatabase(@, s.disk)]
readPatternFile(s) == [s EXCEPT !.patterns = @ \cup defaultPatterns]

(* createDefaultDatabase (lines 71-221): threats.json is written, then     *)
(* patterns.json, then both are loaded; an error of ensureDir or of a      *)
(* write is logged and nothing is loaded.                                  *)
createDefaultDatabase(s, outcome) ==
    IF outcome = "written"
    THEN readPatternFile(readThreatFile(
             [s EXCEPT !.disk = defaultThreats,
                       !.files = [threats |-> "valid", patterns |-> "valid"]]))
    ELSE IF outcome = "threatsOnly"
    THEN [s EXCEPT !.disk = defaultThreats, !.files.threats = "valid"]
    ELSE s

(* loadThreatDatabase, lines 32-51: nothing when the file does not exist;  *)
(* the defaults are created only when reading or parsing it throws.        *)
loadThreatFile(s, outcome) ==
    IF s.files.threats = "absent" THEN s
    ELSE IF s.files.threats = "valid" THEN readThreatFile(s)
    ELSE createDefaultDatabase(s, outcome)

(* loadPatternDatabase, lines 53-69. *)
loadPatternDatabase(s, outcome) ==
    IF s.files.patterns = "absent" THEN s
    ELSE IF s.files.patterns = "valid" THEN readPatternFile(s)
    ELSE createDefaultDatabase(s, outcome)

(* initializeDatabase, lines 17-30, started by the constructor: neither    *)
(* load throws, so the catch of line 23 never runs.                        *)
InitializeDatabase(outcome) ==
    /\ ~ready
    /\ LET s == loadPatternDatabase(loadThreatFile(StoreNow, outcome), outcome)
       IN  /\ threats' = s.threats
           /\ disk' = s.disk
           /\ files' = s.files
           /\ patternMap' = s.patterns
    /\ ready' = TRUE
    /\ lastOp' = [op |-> "init", found |-> files]
    /\ UNCHANGED <<ops, pipeVars, scored, assessed>>

(* The process is started again: a new ThreatDatabase, the files as they   *)
(* were left.                                                              *)
Restart ==
    /\ ops < MaxOps /\ ready
    /\ ops' = ops + 1
    /\ threats' = <<>>
    /\ patternMap' = {}
    /\ ready' = FALSE
    /\ lastOp' = [op |-> "restart"]
    /\ UNCHANGED <<disk, files, pipeVars, scored, assessed>>

(* lookupThreat called by a client of the store (lines 223-235). *)
Lookup(hash, packageName) ==
    /\ ops < MaxOps
    /\ ops' = ops + 1
    /\ lastOp' = [op |-> "lookup", hash |-> hash, packageName |-> packageName,
                  result |-> lookupThreat(threats, hash, packageName)]
    /\ UNCHANGED <<threats, disk, files, patternMap, ready, pipeVars, scored, assessed>>

(* addThreat, lines 237-273. *)
AddThreat(threat, saveFails) ==
    /\ ops < MaxOps
    /\ ops' = ops + 1
    /\ IF threat.hash = None /\ threat.packageName = None
       THEN /\ lastOp' = [op |-> "add", result |-> "rejected", threat |-> threat]
            /\ UNCHANGED <<threats, disk, files>>
       ELSE LET t == [threat EXCEPT !.id = IF @ = None THEN GeneratedId ELSE @]
                m1 == IF t.hash # None THEN SetKey(threats, t.hash, t) ELSE threats
                m2 == IF t.packageName # None THEN SetKey(m1, t.packageName, t) ELSE m1
            IN  /\ threats' = m2
                /\ disk' = IF saveFails THEN disk ELSE saveThreatDatabase(m2)
                /\ files' = IF saveFails THEN files ELSE [files EXCEPT !.threats = "valid"]
                /\ lastOp' = [op |-> "add", threat |-> t,
                              result |-> IF saveFails THEN "rejected" ELSE "added"]
    /\ UNCHANGED <<patternMap, ready, pipeVars, scored, assessed>>

(* removeThreat, lines 275-298. *)
RemoveThreat(threatId, saveFails) ==
    /\ ops < MaxOps
    /\ ops' = ops + 1
    /\ LET kept == SelectSeq(threats, LAMBDA e : e.val.id # threatId)
           removed == Len(kept) < Len(threats)
       IN  /\ threats' = kept
           /\ disk' = IF removed /\ ~saveFails THEN saveThreatDatabase(kept) ELSE disk
           /\ files' = IF removed /\ ~saveFails
                       THEN [files EXCEPT !.threats = "valid"] ELSE files
           /\ lastOp' = [op |-> "remove",
                         result |-> IF ~removed THEN "false"
                                    ELSE IF saveFails THEN "rejected" ELSE "true"]
    /\ UNCHANGED <<patternMap, ready, pipeVars, scored, assessed>>

(* The type, family and severity of a record.  The seed records carry     *)
(* them (lines 78-131); no operation of the store reads or changes them,   *)
(* and the records addThreat is called with here carry none.               *)
seedAttributes ==
    [threat_001 |-> [type |-> "banking_trojan", family |-> "Anubis", severity |-> "high"],
     threat_002 |-> [type |-> "fake_security_app", family |-> "FakeScanner", severity |-> "high"],
     threat_003 |-> [type |-> "system_optimizer", family |-> "FakeOptimizer", severity |-> "medium"]]

AttributesOf(threat) ==
    IF threat.id \in DOMAIN seedAttributes THEN seedAttributes[threat.id]
    ELSE [type |-> UndefinedKey, family |-> None, severity |-> None]

(* `threat.severity || 'medium'` (line 345). *)
SeverityOf(threat) ==
    IF AttributesOf(threat).severity = None THEN "medium" ELSE AttributesOf(threat).severity

(* getThreatSummary, lines 316-365: the size of the Map, and one count     *)
(* per value of the Map by type, family and severity.  recentThreats and   *)
(* lastUpdated depend on the clock and are left out.                       *)
getThreatSummary(map) ==
    LET threatList == [i \in 1..Len(map) |-> map[i].val]
        entries == DOMAIN threatList
    IN  [totalThreats |-> Len(map),
         threatTypes |->
             [ty \in {AttributesOf(threatList[i]).type : i \in entries} |->
                 Cardinality({i \in entries : AttributesOf(threatList[i]).type = ty})],
         families |->
             [f \in {AttributesOf(threatList[i]).family : i \in entries} \ {None} |->
                 Cardinality({i \in entries : AttributesOf(threatList[i]).family = f})],
         severity |->
             [sv \in {"low", "medium", "high", "critical"} |->
                 Cardinality({i \in entries : SeverityOf(threatList[i]) = sv})]]

(* getThreatSummary called by a client of the store. *)
GetThreatSummary ==
    /\ ops < MaxOps
    /\ ops' = ops + 1
    /\ lastOp' = [op |-> "summary", result |-> getThreatSummary(threats)]
    /\ UNCHANGED <<threats, disk, files, patternMap, ready, pipeVars, scored, assessed>>

(* A new ThreatDatabase (constructor, lines 6-15) over a data directory    *)
(* that holds no file, or a file that does not parse.                      *)
DbInit ==
    /\ InitIdleJob
    /\ threats = <<>>
    /\ disk = <<>>
    /\ ops = 0
    /\ lastOp = [op |-> None]
    /\ files \in [threats : {"absent", "corrupt"}, patterns : {"absent", "corrupt"}]
    /\ patternMap = {}
    /\ ready = FALSE
    /\ scored = NoScore
    /\ assessed = NoScore

CreateOutcomes == {"written", "threatsOnly", "failed"}

(* What lookupThreat is asked for: the keys of added records, the keys of  *)
(* a seed record, or no key (null).                                        *)
LookupHashes == ThreatHashes \cup {None, "e3b0c442"}
LookupPackages == ThreatPackages \cup {None, "com.fakebanking.app"}

DbNext ==
    \/ \E outcome \in CreateOutcomes : InitializeDatabase(outcome)
    \/ Restart
    \/ \E hash \in LookupHashes, packageName \in LookupPackages :
           Lookup(hash, packageName)
    \/ \E threat \in ThreatInputs, saveFails \in BOOLEAN : AddThreat(threat, saveFails)
    \/ \E threatId \in ThreatIds \cup {GeneratedId}, saveFails \in BOOLEAN :
           RemoveThreat(threatId, saveFails)
    \/ GetThreatSummary

DbSpec == DbInit /\ [][DbNext]_vars

StoredRecords == {threats[i].val : i \in 1..Len(threats)}

(* C10: every stored record that has both a hash and a packageName is the  *)
(* record a lookup by its hash returns and the record a lookup by its      *)
(* packageName (with a hash that matches nothing) returns.                 *)
C10_RetrievableByEitherKey ==
    \A r \in StoredRecords :
        (r.hash # None /\ r.packageName # None) =>
            /\ lookupThreat(threats, r.hash, None) = r
            /\ lookupThreat(threats, "no such hash", r.packageName) = r

(* C11: a lookup leaves the store as it was, and a second lookup with the  *)
(* same arguments returns the same record; right after addThreat(r) of a   *)
(* record with a hash and a packageName, the lookup by r.hash alone and    *)
(* the lookup by r.packageName alone (the hash being null) return r.       *)
C11_LookupIdempotentAddRetrievable ==
    [][/\ (ops' = ops + 1 /\ lastOp'.op = "lookup") =>
              /\ threats' = threats /\ disk' = disk
              /\ (/\ lastOp.op = "lookup"
                  /\ lastOp.hash = lastOp'.hash
                  /\ lastOp.packageName = lastOp'.packageName) =>
                     lastOp'.result = lastOp.result
       /\ (/\ ops' = ops + 1 /\ lastOp'.op = "add"
           /\ lastOp'.threat.hash # None /\ lastOp'.threat.packageName # None) =>
              /\ lookupThreat(threats', lastOp'.threat.hash, None) = lastOp'.threat
              /\ lookupThreat(threats', None, lastOp'.threat.packageName) = lastOp'.threat]_vars

(* C11, witness: record b was added under a packageName that record a     *)
(* held, and a is still stored under its hash.                             *)
C11_Witness ==
    /\ lastOp.op = "add" /\ lastOp.result = "added"
    /\ lastOp.threat = [id |-> "b", hash |-> "h2", packageName |-> "p1"]
    /\ HasKey(threats, "h1") /\ GetKey(threats, "h1").id = "a"

(* C12: after the initialization of a store that found neither file on     *)
(* disk, the seed records and patterns are written, loaded, and every seed *)
(* record is returned by a lookup of its hash and of its packageName.      *)
C12_SeedsOnFirstInit ==
    (lastOp.op = "init" /\ lastOp.found = NoFiles) =>
        /\ files = [threats |-> "valid", patterns |-> "valid"]
        /\ disk = defaultThreats
        /\ patternMap = defaultPatterns
        /\ \A i \in 1..Len(defaultThreats) :
               /\ lookupThreat(threats, defaultThreats[i].hash, None) = defaultThreats[i]
               /\ lookupThreat(threats, None, defaultThreats[i].packageName)
                      = defaultThreats[i]

(* C27: after any sequence of addThreat and removeThreat, the records      *)
(* saveThreatDatabase writes, loaded by loadThreatDatabase into an empty   *)
(* Map, answer every lookupThreat (every hash, every package name) as the  *)
(* Map that was saved answers it.                                          *)
C27_SaveLoadRoundTrip ==
    \A hash \in LookupHashes, packageName \in LookupPackages :
        lookupThreat(loadThreatDatabase(<<>>, saveThreatDatabase(threats)), hash, packageName)
            = lookupThreat(threats, hash, packageName)

(* C28: an addThreat that fails (the record has neither hash nor           *)
(* packageName, or saveThreatDatabase raised) leaves the Map as it was.    *)
C28_FailedAddLeavesIndexUnchanged ==
    [][(ops' = ops + 1 /\ lastOp'.op = "add" /\ lastOp'.result = "rejected")
           => threats' = threats]_vars

(* C29: getThreatSummary counts every stored record once: totalThreats is  *)
(* the number of distinct records, and the counts by type, family and      *)
(* severity are counts of distinct records.                                *)
C29_SummaryCountsDistinctRecords ==
    lastOp.op = "summary" =>
        LET summary == lastOp.result
        IN  /\ summary.totalThreats = Cardinality(StoredRecords)
            /\ \A ty \in DOMAIN summary.threatTypes :
                   summary.threatTypes[ty]
                       = Cardinality({r \in StoredRecords : AttributesOf(r).type = ty})
            /\ \A f \in DOMAIN summary.families :
                   summary.families[f]
                       = Cardinality({r \in StoredRecords : AttributesOf(r).family = f})
            /\ \A sv \in DOMAIN summary.severity :
                   summary.severity[sv]
                       = Cardinality({r \in StoredRecords : SeverityOf(r) = sv})

-----------------------------------------------------------------------------
(* JobsSpec: two calls of analyzeAPK interleaved on one analyzer.          *)

JobsInit ==
    /\ InitIdleJob
    /\ threats = loadThreatDatabase(<<>>, defaultThreats)
    /\ InitStore
    /\ scored = NoScore
    /\ assessed = NoScore

JobsNext ==
    \/ \E i \in Instances, a \in JobApks, pathOk \in BOOLEAN : JobSubmit(i, a, pathOk)
    \/ \E i \in Instances, ok \in BOOLEAN : JobStageDone(i, ok)
    \/ \E i \in Instances : JobCleanupDone(i)
    \/ \E i \in Instances, ok \in BOOLEAN : JobFallbackDone(i, ok)
    \/ \E i \in Instances : JobTimerFire(i)

JobsSpec == JobsInit /\ [][JobsNext]_vars

(* C17: with two jobs running under distinct ids, a step changes the       *)
(* record under an id only if it is a step of the pipeline or of the       *)
(* watcher of the one call that holds this id; no step of the other call   *)
(* changes it.                                                             *)
C17_RecordWrittenOnlyByOwnJob ==
    [][\A k \in JobIds :
          analysisResults'[k] # analysisResults[k] =>
              /\ actor'.role \in {"pipeline", "watcher"}
              /\ inst'[actor'.inst].analysisId = k
              /\ \A i \in Instances \ {actor'.inst} :
                    inst[i].analysisId # k /\ inst'[i].analysisId # k]_vars

(* C17, witness: both jobs are under way under distinct ids and the        *)
(* watcher of one has just failed its record while the other's record is   *)
(* still being processed.                                                  *)
C17_Witness ==
    /\ inst["x"].analysisId # None /\ inst["y"].analysisId # None
    /\ inst["x"].analysisId # inst["y"].analysisId
    /\ actor = [inst |-> "x", role |-> "watcher"]
    /\ analysisResults[inst["x"].analysisId].status = "failed"
    /\ analysisResults[inst["y"].analysisId].status = "processing"
    /\ analysisResults[inst["y"].analysisId].progress = 60

-----------------------------------------------------------------------------
(* PermSpec: analyzePermissions on every permission list within the        *)
(* bound, and on the lists analyzeManifest extracts from two manifests     *)
(* that declare the same permissions.                                      *)

MaxDeclared == 5    \* longest permission list handed to analyzePermissions

(* One permission of each tier of calculatePermissionRisk, and one that    *)
(* is not suspicious.                                                      *)
TierPermissions == {"SYSTEM_ALERT_WINDOW", "READ_SMS", "CAMERA", "WRITE_SETTINGS", "INTERNET"}

(* Permissions a manifest declares: two suspicious ones and one that is   *)
(* not on the allowlist of the binary scan.                                *)
DeclaredPermissions == {"READ_SMS", "CAMERA", "VIBRATE"}

Range(s) == {s[i] : i \in 1..Len(s)}

(* Lines 92-95 with the inner catch (lines 99-106): the ManifestInfo and   *)
(* the PermissionAssessment of a job whose manifest declares `declared`.   *)
AssessManifest(kind, declared, binOk, textOk) ==
    LET r == analyzeManifest([kind |-> kind, packageName |-> "com.example.app",
                              permissions |-> declared], binOk, textOk)
    IN  IF r.error # None
        THEN [manifestAnalysis |-> DefaultManifestAnalysis,
              permissionAnalysis |-> DefaultPermissionAnalysis]
        ELSE [manifestAnalysis |-> r.info,
              permissionAnalysis |-> analyzePermissions(r.info.permissions)]

AssessPermissions ==
    /\ ~assessed.done
    /\ \E permissions \in SeqsUpTo(TierPermissions, MaxDeclared) :
          assessed' = [done |-> TRUE, op |-> "analyzePermissions",
                       permissions |-> permissions,
                       result |-> analyzePermissions(permissions)]
    /\ UNCHANGED <<pipeVars, dbVars, scored>>

AssessManifests ==
    /\ ~assessed.done
    /\ \E kind \in {"xml", "binary"}, binOk, textOk \in BOOLEAN,
          declared \in SeqsUpTo(DeclaredPermissions, MaxPerms) :
          \E other \in {q \in SeqsUpTo(DeclaredPermissions, MaxPerms) :
                           Range(q) = Range(declared)} :
             assessed' = [done |-> TRUE, op |-> "analyzeManifest",
                          kind |-> kind, binOk |-> binOk, textOk |-> textOk,
                          declared |-> declared, other |-> other,
                          first |-> AssessManifest(kind, declared, binOk, textOk),
                          second |-> AssessManifest(kind, other, binOk, textOk)]
    /\ UNCHANGED <<pipeVars, dbVars, scored>>

PermInit ==
    /\ InitIdleJob
    /\ threats = <<>>
    /\ InitStore
    /\ scored = NoScore
    /\ assessed = NoScore

PermNext ==
    \/ AssessPermissions
    \/ AssessManifests

PermSpec == PermInit /\ [][PermNext]_vars

TierSum(suspicious) ==
    10 + 25 * Count(suspicious, highRiskPerms)
       + 15 * Count(suspicious, mediumRiskPerms \ highRiskPerms)
       + 8 * Count(suspicious, lowRiskPerms \ (highRiskPerms \cup mediumRiskPerms))
       + 10 * Count(suspicious, suspiciousPermissions
                                   \ (highRiskPerms \cup mediumRiskPerms \cup lowRiskPerms))

Clamp(n) == Max(0, Min(n, 100))

(* C22 as claimed: the permission riskScore is 10 plus 25, 15, 8 or 10     *)
(* for each matched suspicious permission of the high, medium, low or      *)
(* unrecognized tier, minus 5 when exactly one low-risk match is present,  *)
(* plus 15 when five or more matched, clamped to 0..100.                   *)
C22_ScoreWithOneLowRiskMatch ==
    (assessed.done /\ assessed.op = "analyzePermissions") =>
        LET suspicious == assessed.result.suspicious
        IN  assessed.result.riskScore =
                Clamp(TierSum(suspicious)
                      - (IF Count(suspicious, lowRiskPerms) = 1 THEN 5 ELSE 0)
                      + (IF Len(suspicious) >= 5 THEN 15 ELSE 0))

(* C22, amended: the 5 points are taken off only when the matched          *)
(* suspicious permissions are a single entry and that entry is low-risk;   *)
(* every matched entry counts, repeated ones too.                          *)
C22_ScoreWithSingleLowRiskMatch ==
    (assessed.done /\ assessed.op = "analyzePermissions") =>
        LET suspicious == assessed.result.suspicious
        IN  /\ suspicious = SelectSeq(assessed.permissions,
                                      LAMBDA p : p \in suspiciousPermissions)
            /\ assessed.result.riskScore =
                  Clamp(TierSum(suspicious)
                        - (IF Len(suspicious) = 1 /\ Count(suspicious, lowRiskPerms) = 1
                           THEN 5 ELSE 0)
                        + (IF Len(suspicious) >= 5 THEN 15 ELSE 0))

(* C22, witness: one low-risk match next to a medium one, scored 33 with   *)
(* nothing taken off.                                                      *)
C22_Witness ==
    /\ assessed.done /\ assessed.op = "analyzePermissions"
    /\ assessed.permissions = <<"CAMERA", "READ_SMS">>
    /\ assessed.result.riskScore = 33

(* C23: two manifests that declare the same set of permissions, in any    *)
(* order and with any repetition, get the same PermissionAssessment:       *)
(* total, suspicious and banking permissions, riskScore.                   *)
C23_PermissionsBehaveAsSet ==
    (assessed.done /\ assessed.op = "analyzeManifest") =>
        LET a == assessed.first.permissionAnalysis
            b == assessed.second.permissionAnalysis
        IN  /\ a.total = b.total
            /\ Range(a.suspicious) = Range(b.suspicious)
            /\ Range(a.banking) = Range(b.banking)
            /\ a.riskScore = b.riskScore

====
